---- MODULE Spec2Model ----
(***************************************************************************)
(* Model of the Global Volcano Explorer (CS230_Final.py): the loader       *)
(* load_data, the helpers count_and_average_height and                     *)
(* get_named_volcanoes, the pages home and query1..query4, and main.       *)
(*                                                                         *)
(* Representation.  A nullable cell is a set with at most one element:     *)
(* {} is NaN / pd.NA / None and {v} is the value v.  Text that the code    *)
(* inspects (eruption text, volcano names) is a sequence of one-character  *)
(* strings.  A filtered DataFrame is the ascending sequence of the index   *)
(* labels (row numbers of df) that it keeps, as in pandas.                 *)
(***************************************************************************)
EXTENDS Integers, Sequences, FiniteSets, TLC

VARIABLES pc, raw, df, page, sel, filtered, out, err

vars == <<pc, raw, df, page, sel, filtered, out, err>>

(***************************************************************************)
(* Bounds of the model.                                                    *)
(***************************************************************************)
MaxTextLen == 5
MaxRows == 3
MaxMixRows == 2
MaxTopRows == 12

(***************************************************************************)
(* Program constants.                                                      *)
(***************************************************************************)
NoRegion == "-- Please select a region --"
NoSetting == "-- Please select a tectonic setting --"
AllRegions == "All"
MaxYear == 2025
TopN == 10
MinHeight == 0
MaxHeight == 9000
DefaultHeight == 2000

Null == {}

(***************************************************************************)
(* Text helpers.                                                           *)
(***************************************************************************)
Digits == {"0", "1", "2", "3", "4", "5", "6", "7", "8", "9"}

DigitVal(c) ==
  CASE c = "0" -> 0 [] c = "1" -> 1 [] c = "2" -> 2 [] c = "3" -> 3
    [] c = "4" -> 4 [] c = "5" -> 5 [] c = "6" -> 6 [] c = "7" -> 7
    [] c = "8" -> 8 [] c = "9" -> 9

Range(s) == {s[i] : i \in 1..Len(s)}

\* "needle in hay" for Python strings: needle occurs as a contiguous substring
Contains(hay, needle) ==
  \E i \in 1..(Len(hay) - Len(needle) + 1) :
     SubSeq(hay, i, i + Len(needle) - 1) = needle

Mount == <<"M", "o", "u", "n", "t">>

(***************************************************************************)
(* Eruption-date cells as read from the spreadsheet: a string, an empty    *)
(* cell, or a non-text (numeric) cell, whose digits are kept in val.       *)
(***************************************************************************)
StrCell(s) == [kind |-> "str", val |-> s]
NullCell == [kind |-> "null", val |-> <<>>]
NumCell(s) == [kind |-> "num", val |-> s]

Unknown == <<"U", "n", "k", "n", "o", "w", "n">>
QuestionMark == <<"?">>
NoData == <<"N", "o", " ", "d", "a", "t", "a">>
EmptyText == <<>>
Sentinels == {Unknown, QuestionMark, NoData, EmptyText}

Pinatubo == <<"1", "9", "9", "1", " ", "(", "P", "i", "n", "a", "t", "u", "b", "o", ")">>
BCE4050 == <<"4", "0", "5", "0", " ", "B", "C", "E">>
BCE750 == <<"7", "5", "0", " ", "B", "C", "E">>
CE1850 == <<"1", "8", "5", "0", " ", "C", "E">>

\* Series.replace(["Unknown", "?", "No data", ""], pd.NA) on one cell
replace_sentinels(cell) ==
  IF cell.kind = "str" /\ cell.val \in Sentinels THEN NullCell ELSE cell

\* the variant that takes the rightmost window instead of the leftmost
RECURSIVE search_4digits_last(_, _)
search_4digits_last(s, i) ==
  LET j == Len(s) - 2 - i
  IN  IF j < 1 THEN Null
      ELSE IF \A k \in 0..3 : s[j + k] \in Digits THEN {SubSeq(s, j, j + 3)}
      ELSE search_4digits_last(s, i + 1)

\* re.search(r'(\d{4})', s): the leftmost window of four digits, from position i on
RECURSIVE search_4digits(_, _)
search_4digits(s, i) ==
  IF i + 3 > Len(s) THEN Null
  ELSE IF \A k \in 0..3 : s[i + k] \in Digits THEN {SubSeq(s, i, i + 3)}
  ELSE search_4digits(s, i + 1)

\* Series.str.extract(r'(\d{4})')[0] on one cell of an object column:
\* NaN for a missing or non-string element
str_extract(cell) ==
  IF cell.kind = "str" THEN search_4digits(cell.val, 1) ELSE Null

\* decimal value of a digit string
RECURSIVE ParseInt(_)
ParseInt(s) ==
  IF s = <<>> THEN 0
  ELSE 10 * ParseInt(SubSeq(s, 1, Len(s) - 1)) + DigitVal(s[Len(s)])

\* pd.to_numeric(..., errors='coerce') on one extracted cell
to_numeric(x) ==
  IF x = Null THEN Null
  ELSE LET s == CHOOSE t \in x : TRUE
       IN  IF s # <<>> /\ Range(s) \subseteq Digits THEN {ParseInt(s)} ELSE Null

(***************************************************************************)
(* The spreadsheet and the DataFrame.                                      *)
(***************************************************************************)
Columns ==
  {"volcano name", "country", "volcanic region", "primary volcano type",
   "tectonic setting", "elevation (m)", "latitude", "longitude",
   "last known eruption"}

\* a header cell as the spreadsheet may spell it
RawName(c) ==
  CASE c = "volcano name" -> "Volcano Name"
    [] c = "country" -> "Country"
    [] c = "volcanic region" -> "Volcanic Region"
    [] c = "primary volcano type" -> "Primary Volcano Type"
    [] c = "tectonic setting" -> "Tectonic Setting"
    [] c = "elevation (m)" -> "Elevation (m) "
    [] c = "latitude" -> "Latitude"
    [] c = "longitude" -> "Longitude"
    [] c = "last known eruption" -> " Last Known Eruption"

\* df.columns.str.strip().str.lower() on one header cell
strip_lower(h) ==
  IF \E c \in Columns : RawName(c) = h
  THEN CHOOSE c \in Columns : RawName(c) = h
  ELSE h

\* one spreadsheet row; country, latitude and longitude carry no value here
\* because no computation of the program reads them
Row(name, region, type, setting, elev, erupt) ==
  [name |-> name, region |-> region, type |-> type, setting |-> setting,
   elev |-> elev, erupt |-> erupt, year |-> Null]

NoTable == [columns |-> {}, rows |-> <<>>]

Column(rows, f) == [i \in 1..Len(rows) |-> rows[i][f]]

\* dtype that read_excel gives the eruption column: object as soon as one cell
\* is text (or the sheet has no row), else a numeric dtype
column_dtype(cells) ==
  IF Len(cells) = 0 \/ \E i \in 1..Len(cells) : cells[i].kind = "str"
  THEN "object"
  ELSE IF \E i \in 1..Len(cells) : cells[i].kind = "null" THEN "float64"
  ELSE "int64"

\* lines 43-44 on one row of an object column
normalize_row(r) ==
  LET cell == replace_sentinels(r.erupt)
  IN  [r EXCEPT !.erupt = cell, !.year = to_numeric(str_extract(cell))]

\* the error load_data ends with, "none" when it returns
load_error(data) ==
  LET cols == {strip_lower(h) : h \in data.header}
  IN  IF "last known eruption" \notin cols THEN "KeyError"
      ELSE IF column_dtype(Column(data.rows, "erupt")) # "object"
           THEN "AttributeError"
      ELSE "none"

\* the DataFrame load_data returns
load_table(data) ==
  [columns |-> {strip_lower(h) : h \in data.header} \cup {"year erupted"},
   rows |-> [i \in 1..Len(data.rows) |-> normalize_row(data.rows[i])]]

(***************************************************************************)
(* Widget selections and page results.                                     *)
(***************************************************************************)
NoSel ==
  [region |-> NoRegion, height |-> DefaultHeight, years |-> <<0, MaxYear>>,
   setting |-> NoSetting, types |-> {}, known |-> FALSE, map |-> FALSE]

NaN == [sum |-> 0, n |-> 0]

NoOut ==
  [count |-> 0, avg |-> NaN, named |-> <<>>, type_counts |-> <<>>,
   top_types |-> <<>>, min_year |-> 0]

load_data ==
  /\ pc = "start"
  /\ LET e == load_error(raw)
     IN  IF e = "none"
         THEN /\ df' = load_table(raw)
              /\ pc' = "loaded"
              /\ err' = "none"
         ELSE /\ df' = NoTable
              /\ pc' = "failed"
              /\ err' = e
  /\ page' = "load_data"
  /\ UNCHANGED <<raw, sel, filtered, out>>

(***************************************************************************)
(* pandas helpers on index sequences; df[mask] is SelectSeq.               *)
(***************************************************************************)
AllIdx(rows) == [i \in 1..Len(rows) |-> i]

\* elementwise == on a nullable column: a missing value equals nothing
Eq(x, v) == x = {v}

\* the variant that fills a missing value with 0 before comparing
GeFillZero(x, h) == IF x = Null THEN 0 >= h ELSE \E e \in x : e >= h

\* elementwise >= on a nullable numeric column: False for NaN
Ge(x, h) == \E e \in x : e >= h

\* Series.between(lo, hi): inclusive on both ends, False for NaN
between(x, lo, hi) == \E y \in x : lo =< y /\ y =< hi

\* Series.isin(values): False for NaN
isin(x, values) == \E v \in x : v \in values

notna(x) == x # Null

\* Series.notna() on the eruption text
notna_cell(cell) == cell.kind # "null"

\* sorted(Series.dropna().unique()), as a set of options
Options(rows, f) == UNION {rows[i][f] : i \in 1..Len(rows)}

RECURSIVE SumSeq(_)
SumSeq(s) == IF s = <<>> THEN 0 ELSE Head(s) + SumSeq(Tail(s))

SetMin(S) == CHOOSE m \in S : \A x \in S : m =< x

Min(a, b) == IF a =< b THEN a ELSE b

Max(a, b) == IF a >= b THEN a ELSE b

\* Series.mean(): the sum and the number of the non-null values, kept as an
\* exact fraction; n = 0 is NaN
mean(rows, idx) ==
  LET nn == SelectSeq(idx, LAMBDA i : notna(rows[i].elev))
      vals == [k \in 1..Len(nn) |-> CHOOSE e \in rows[nn[k]].elev : TRUE]
  IN  [sum |-> SumSeq(vals), n |-> Len(vals)]

(***************************************************************************)
(* The filters of the pages.                                               *)
(***************************************************************************)
\* df[df["volcanic region"] == region]
filter_region(rows, idx, region) ==
  SelectSeq(idx, LAMBDA i : Eq(rows[i].region, region))

\* df[df["elevation (m)"] >= height]
filter_min_elevation(rows, idx, height) ==
  SelectSeq(idx, LAMBDA i : Ge(rows[i].elev, height))

\* filtered[filtered["last known eruption"].notna()]
filter_known(rows, idx) ==
  SelectSeq(idx, LAMBDA i : notna_cell(rows[i].erupt))

\* filtered[filtered["primary volcano type"].isin(types)]
filter_types(rows, idx, types) ==
  SelectSeq(idx, LAMBDA i : isin(rows[i].type, types))

\* count_and_average_height(df, region)
count_and_average_height(rows, idx, region) ==
  LET d == IF region # AllRegions THEN filter_region(rows, idx, region) ELSE idx
  IN  [count |-> Len(d), avg |-> mean(rows, d)]

\* get_named_volcanoes(df): "Mount" in name raises TypeError on a name that is
\* not a string
named_error(rows, idx) ==
  IF \E k \in 1..Len(idx) : rows[idx[k]].name = Null THEN "TypeError" ELSE "none"

get_named_volcanoes(rows, idx) ==
  LET hit == SelectSeq(idx, LAMBDA i : \E n \in rows[i].name : Contains(n, Mount))
  IN  [k \in 1..Len(hit) |-> CHOOSE n \in rows[hit[k]].name : TRUE]

(***************************************************************************)
(* Series.value_counts() and head().                                       *)
(***************************************************************************)
\* the distinct non-null values of a column in first-encountered order
RECURSIVE FirstSeen(_, _)
FirstSeen(col, acc) ==
  IF col = <<>> THEN acc
  ELSE LET x == Head(col)
       IN  IF x = Null \/ (\E k \in 1..Len(acc) : x = {acc[k]})
           THEN FirstSeen(Tail(col), acc)
           ELSE FirstSeen(Tail(col), acc \o <<CHOOSE v \in x : TRUE>>)

Occurrences(col, v) == Cardinality({k \in 1..Len(col) : col[k] = {v}})

Rotate(s, k) ==
  IF Len(s) = 0 THEN s
  ELSE [i \in 1..Len(s) |-> s[((i - 1 + k) % Len(s)) + 1]]

RemoveAt(s, p) == SubSeq(s, 1, p - 1) \o SubSeq(s, p + 1, Len(s))

\* the variant that sorts ascending
RECURSIVE SortAscending(_, _)
SortAscending(keys, col) ==
  IF keys = <<>> THEN <<>>
  ELSE LET p == CHOOSE q \in 1..Len(keys) :
                  /\ \A r \in 1..Len(keys) :
                        Occurrences(col, keys[q]) =< Occurrences(col, keys[r])
                  /\ \A r \in 1..(q - 1) :
                        Occurrences(col, keys[r]) > Occurrences(col, keys[q])
       IN  <<keys[p]>> \o SortAscending(RemoveAt(keys, p), col)

\* sort_values(ascending=False) on the counts: descending, keys of equal
\* count left in the order in which the sort meets them
RECURSIVE SortDescending(_, _)
SortDescending(keys, col) ==
  IF keys = <<>> THEN <<>>
  ELSE LET p == CHOOSE q \in 1..Len(keys) :
                  /\ \A r \in 1..Len(keys) :
                        Occurrences(col, keys[q]) >= Occurrences(col, keys[r])
                  /\ \A r \in 1..(q - 1) :
                        Occurrences(col, keys[r]) < Occurrences(col, keys[q])
       IN  <<keys[p]>> \o SortDescending(RemoveAt(keys, p), col)

\* The sort behind value_counts is numpy's default quicksort, which is not
\* stable: the order of keys with equal counts is not determined.  tie picks
\* the order in which the sort meets the keys; tie = 0 is the stable outcome.
TieOrders(col) == 0..Max(0, Len(FirstSeen(col, <<>>)) - 1)

\* filtered["primary volcano type"].value_counts(): (type, count) pairs
value_counts(rows, idx, tie) ==
  LET col == [k \in 1..Len(idx) |-> rows[idx[k]].type]
      keys == SortDescending(Rotate(FirstSeen(col, <<>>), tie), col)
  IN  [k \in 1..Len(keys) |-> [key |-> keys[k], count |-> Occurrences(col, keys[k])]]

\* Series.head(n)
head(s, n) == SubSeq(s, 1, Min(n, Len(s)))

(***************************************************************************)
(* The filtered tables of the pages.                                       *)
(***************************************************************************)
\* query1, line 97
query1_filter(rows, region) ==
  IF region = NoRegion THEN AllIdx(rows)
  ELSE filter_region(rows, AllIdx(rows), region)

\* query2, lines 124-128: one boolean mask over df
query2_filter(rows, region, height) ==
  IF region = NoRegion
  THEN SelectSeq(AllIdx(rows), LAMBDA i : Ge(rows[i].elev, height))
  ELSE SelectSeq(AllIdx(rows),
              LAMBDA i : Eq(rows[i].region, region) /\ Ge(rows[i].elev, height))

\* query3, line 147
min_year(rows) ==
  LET ys == UNION {rows[i].year : i \in 1..Len(rows)}
  IN  IF ys # {} THEN SetMin(ys) ELSE 0

\* query3, lines 153-154
query3_filter(rows, years, setting) ==
  IF setting = NoSetting
  THEN SelectSeq(AllIdx(rows), LAMBDA i : between(rows[i].year, years[1], years[2]))
  ELSE SelectSeq(AllIdx(rows),
              LAMBDA i : /\ between(rows[i].year, years[1], years[2])
                         /\ Eq(rows[i].setting, setting))

\* the variant of query4's pipeline whose region step starts again from df
query4_filter_restart(rows, known, region, types) ==
  LET f1 == IF known THEN filter_known(rows, AllIdx(rows)) ELSE AllIdx(rows)
      f2 == IF region # NoRegion THEN filter_region(rows, AllIdx(rows), region) ELSE f1
  IN  IF types # {} THEN filter_types(rows, f2, types) ELSE f2

\* query4, lines 188-194
query4_filter(rows, known, region, types) ==
  LET f0 == AllIdx(rows)
      f1 == IF known THEN filter_known(rows, f0) ELSE f0
      f2 == IF region # NoRegion THEN filter_region(rows, f1, region) ELSE f1
  IN  IF types # {} THEN filter_types(rows, f2, types) ELSE f2

\* the variant of query4 that filters df itself instead of a copy
query4_table_inplace(d, idx) ==
  [d EXCEPT !.rows = [k \in 1..Len(idx) |-> d.rows[idx[k]]]]

\* query4, line 188: the filters work on df.copy(), df itself is left as it was
query4_table(d, idx) == d

\* a column lookup df[c] raises KeyError when c is not a column
key_error(d, need) == IF need \subseteq d.columns THEN "none" ELSE "KeyError"

(***************************************************************************)
(* The values the widgets offer.                                           *)
(***************************************************************************)
MaxTypeSel == 1

\* st.selectbox over the sentinel and the regions of df
RegionOptions(rows) == {NoRegion} \cup Options(rows, "region")

SettingOptions(rows) == {NoSetting} \cup Options(rows, "setting")

\* st.multiselect over the types of df
TypeSelections(rows) ==
  {T \in SUBSET Options(rows, "type") : Cardinality(T) =< MaxTypeSel}

\* st.slider(0, 9000, 2000, 100): some of its positions
Heights == {MinHeight, DefaultHeight, MaxHeight}

YearPoints == {1900, 2000}

\* st.slider(min_year, 2025, (min_year, 2025)): some of its ranges; when
\* min_year exceeds 2025 the slider cannot be built and raises
YearRanges(my) ==
  IF my > MaxYear THEN {<<my, MaxYear>>}
  ELSE LET pts == {my, MaxYear} \cup {y \in YearPoints : my =< y /\ y =< MaxYear}
       IN  {r \in pts \X pts : r[1] =< r[2]}

Failed(e) ==
  /\ err' = e
  /\ filtered' = <<>>
  /\ out' = NoOut

(***************************************************************************)
(* The pages.                                                              *)
(***************************************************************************)
home ==
  /\ pc = "loaded"
  /\ \E map \in BOOLEAN :
       /\ sel' = [NoSel EXCEPT !.map = map]
       /\ filtered' = IF map THEN AllIdx(df.rows) ELSE <<>>
  /\ out' = NoOut
  /\ err' = "none"
  /\ page' = "home"
  /\ pc' = "shown"
  /\ UNCHANGED <<raw, df>>

query1 ==
  /\ pc = "loaded"
  /\ \E region \in RegionOptions(df.rows) :
       LET f == query1_filter(df.rows, region)
           col == [k \in 1..Len(f) |-> df.rows[f[k]].type]
           ke == key_error(df, {"volcanic region", "primary volcano type", "volcano name"})
           e == IF ke # "none" THEN ke ELSE named_error(df.rows, f)
       IN  /\ sel' = [NoSel EXCEPT !.region = region]
           /\ IF e # "none" THEN Failed(e)
              ELSE \E tie \in TieOrders(col) :
                     /\ err' = "none"
                     /\ filtered' = f
                     /\ out' = [NoOut EXCEPT
                                  !.type_counts = value_counts(df.rows, f, tie),
                                  !.named = get_named_volcanoes(df.rows, f)]
  /\ page' = "query1"
  /\ pc' = "shown"
  /\ UNCHANGED <<raw, df>>

query2 ==
  /\ pc = "loaded"
  /\ \E region \in RegionOptions(df.rows), height \in Heights :
       LET f == query2_filter(df.rows, region, height)
           ca == count_and_average_height(df.rows, f, region)
           e == key_error(df, {"volcanic region", "elevation (m)", "volcano name", "country"})
       IN  /\ sel' = [NoSel EXCEPT !.region = region, !.height = height]
           /\ IF e # "none" THEN Failed(e)
              ELSE /\ err' = "none"
                   /\ filtered' = f
                   /\ out' = [NoOut EXCEPT !.count = ca.count, !.avg = ca.avg]
  /\ page' = "query2"
  /\ pc' = "shown"
  /\ UNCHANGED <<raw, df>>

query3 ==
  /\ pc = "loaded"
  /\ LET my == min_year(df.rows)
     IN  \E years \in YearRanges(my), setting \in SettingOptions(df.rows) :
           LET f == query3_filter(df.rows, years, setting)
               e == IF my > MaxYear THEN "StreamlitAPIException"
                    ELSE key_error(df, {"tectonic setting", "volcano name", "country",
                                        "year erupted", "latitude", "longitude"})
           IN  /\ sel' = [NoSel EXCEPT !.years = years, !.setting = setting]
               /\ IF e # "none"
                  THEN /\ err' = e
                       /\ filtered' = <<>>
                       /\ out' = [NoOut EXCEPT !.min_year = my]
                  ELSE /\ err' = "none"
                       /\ filtered' = f
                       /\ out' = [NoOut EXCEPT !.min_year = my, !.count = Len(f)]
  /\ page' = "query3"
  /\ pc' = "shown"
  /\ UNCHANGED <<raw, df>>

query4 ==
  /\ pc = "loaded"
  /\ \E types \in TypeSelections(df.rows), region \in RegionOptions(df.rows),
        known \in BOOLEAN :
       LET f == query4_filter(df.rows, known, region, types)
           col == [k \in 1..Len(f) |-> df.rows[f[k]].type]
           e == key_error(df, {"primary volcano type", "volcanic region"}
                                \cup (IF known THEN {"last known eruption"} ELSE {}))
       IN  /\ sel' = [NoSel EXCEPT !.types = types, !.region = region, !.known = known]
           /\ IF e # "none"
              THEN /\ Failed(e)
                   /\ df' = df
              ELSE \E tie \in TieOrders(col) :
                     LET vc == value_counts(df.rows, f, tie)
                     IN  /\ err' = "none"
                         /\ filtered' = f
                         /\ out' = [NoOut EXCEPT !.type_counts = vc,
                                                 !.top_types = head(vc, TopN)]
                         /\ df' = query4_table(df, f)
  /\ page' = "query4"
  /\ pc' = "shown"
  /\ UNCHANGED raw

\* main: the next interaction runs the script again from the top; load_data
\* is answered from st.cache_data once it has returned, and runs again when
\* it raised
main ==
  /\ pc \in {"shown", "failed"}
  /\ pc' = IF df = NoTable THEN "start" ELSE "loaded"
  /\ page' = "main"
  /\ sel' = NoSel
  /\ filtered' = <<>>
  /\ out' = NoOut
  /\ err' = "none"
  /\ UNCHANGED <<raw, df>>

Next == load_data \/ home \/ query1 \/ query2 \/ query3 \/ query4 \/ main

(***************************************************************************)
(* The spreadsheets the specifications start from.                         *)
(***************************************************************************)
MaxMissing == 1
MaxSchemaRows == 1

MountFuji == <<"M", "o", "u", "n", "t", " ", "F", "u", "j", "i">>
Etna == <<"E", "t", "n", "a">>
LowerMount == <<"m", "o", "u", "n", "t", " ", "x">>
Year1991 == <<"1", "9", "9", "1">>
TwoYears == <<"1", "1", "9", "1", "9">>

TypeNames ==
  <<"Stratovolcano", "Shield", "Caldera", "Complex", "Lava dome",
    "Pyroclastic cone", "Submarine", "Volcanic field", "Fissure vent", "Maar",
    "Tuff cone", "Cinder cone", "Lava cone", "Crater rows", "Subglacial",
    "Compound">>

FullHeader == {RawName(c) : c \in Columns}

Tables(D, n) == UNION {[1..k -> D] : k \in 0..n}

RowDomain ==
  { Row({MountFuji}, {"Africa"}, {"Stratovolcano"}, {"Rift zone"}, {100}, StrCell(Pinatubo)),
    Row({Etna}, {"Africa"}, {"Shield"}, {"Subduction zone"}, {3000}, StrCell(Unknown)),
    Row({LowerMount}, {"Asia"}, {"Stratovolcano"}, Null, {5000}, StrCell(BCE4050)),
    Row(Null, {"Asia"}, {"Shield"}, {"Rift zone"}, Null, StrCell(CE1850)),
    Row({MountFuji}, Null, Null, {"Subduction zone"}, {2000}, StrCell(BCE750)),
    Row({Etna}, {"Asia"}, {"Caldera"}, {"Rift zone"}, {3000}, NullCell),
    Row({MountFuji}, {"Asia"}, {"Shield"}, Null, Null, StrCell(Pinatubo)),
    Row({Etna}, {"Africa"}, {"Stratovolcano"}, {"Rift zone"}, {2000}, StrCell(CE1850)) }

DefaultRow(cell) ==
  Row({MountFuji}, {"Africa"}, {"Stratovolcano"}, {"Rift zone"}, {3000}, cell)

TextAlphabet == {"1", "9", "B"}

Texts == UNION {[1..k -> TextAlphabet] : k \in 0..MaxTextLen}

LoadCells ==
  {StrCell(t) : t \in Texts \cup Sentinels \cup {Pinatubo, BCE750}}
    \cup {NullCell, NumCell(Year1991)}

MixCells ==
  {StrCell(Pinatubo), StrCell(Unknown), StrCell(TwoYears), NullCell, NumCell(Year1991)}

\* a row of a sheet that lacks the columns in missing
Blank(r, missing) ==
  [name |-> IF "volcano name" \in missing THEN Null ELSE r.name,
   region |-> IF "volcanic region" \in missing THEN Null ELSE r.region,
   type |-> IF "primary volcano type" \in missing THEN Null ELSE r.type,
   setting |-> IF "tectonic setting" \in missing THEN Null ELSE r.setting,
   elev |-> IF "elevation (m)" \in missing THEN Null ELSE r.elev,
   erupt |-> IF "last known eruption" \in missing THEN NullCell ELSE r.erupt,
   year |-> Null]

\* a sheet of n rows over d types whose first k rows share the first type
TopRow(i, d, k) ==
  Row({Etna}, {IF i % 2 = 1 THEN "Africa" ELSE "Asia"},
      {IF i =< k THEN TypeNames[1] ELSE TypeNames[((i - 1) % d) + 1]},
      {"Rift zone"}, {3000}, StrCell(IF i % 3 = 0 THEN Unknown ELSE Pinatubo))

Start(sheets) ==
  /\ raw \in sheets
  /\ pc = "start"
  /\ df = NoTable
  /\ page = "none"
  /\ sel = NoSel
  /\ filtered = <<>>
  /\ out = NoOut
  /\ err = "none"

Init ==
  Start({[header |-> FullHeader, rows |-> t] : t \in Tables(RowDomain, MaxRows)})

InitLoad ==
  Start({[header |-> FullHeader, rows |-> <<DefaultRow(c)>>] : c \in LoadCells}
        \cup {[header |-> FullHeader, rows |-> [i \in DOMAIN t |-> DefaultRow(t[i])]] :
                t \in Tables(MixCells, MaxMixRows)})

InitSchema ==
  Start({[header |-> {IF spelt THEN RawName(c) ELSE c : c \in Columns \ missing},
          rows |-> [i \in DOMAIN t |-> Blank(t[i], missing)]] :
            spelt \in BOOLEAN,
            missing \in {M \in SUBSET Columns : Cardinality(M) =< MaxMissing},
            t \in Tables(RowDomain, MaxSchemaRows)})

InitTop ==
  Start({[header |-> FullHeader, rows |-> [i \in 1..n |-> TopRow(i, d, k)]] :
            n \in 0..MaxTopRows, d \in 1..MaxTopRows, k \in 0..MaxTopRows})

Spec == Init /\ [][Next]_vars

SpecLoad == InitLoad /\ [][Next]_vars

SpecSchema == InitSchema /\ [][Next]_vars

SpecTop == InitTop /\ [][Next]_vars

(***************************************************************************)
(* Properties.                                                             *)
(***************************************************************************)
Loaded == pc \in {"loaded", "shown"}

Shown(p) == pc = "shown" /\ page = p

InFiltered(i) == \E k \in 1..Len(filtered) : filtered[k] = i

RowIds == 1..Len(df.rows)

WindowAt(s, j) == j >= 1 /\ j + 3 =< Len(s) /\ \A k \in 0..3 : s[j + k] \in Digits

YearAt(s, j) ==
  1000 * DigitVal(s[j]) + 100 * DigitVal(s[j + 1]) + 10 * DigitVal(s[j + 2])
    + DigitVal(s[j + 3])

\* C1: after load_data every row's year erupted is the integer value of the
\* leftmost run of four digits of its eruption text, and is null when the text
\* has no such run, is missing or is not text; a sentinel text ("Unknown", "?",
\* "No data", "") is stored as null and has a null year.
EruptionYearIsFirstFourDigits ==
  Loaded =>
    /\ Len(df.rows) = Len(raw.rows)
    /\ \A i \in RowIds :
         LET t == raw.rows[i].erupt
             r == df.rows[i]
         IN  IF t.kind = "str" /\ t.val \notin Sentinels
             THEN /\ r.erupt = t
                  /\ IF \E j \in 1..Len(t.val) : WindowAt(t.val, j)
                     THEN \E j \in 1..Len(t.val) :
                            /\ WindowAt(t.val, j)
                            /\ \A m \in 1..(j - 1) : ~WindowAt(t.val, m)
                            /\ r.year = {YearAt(t.val, j)}
                     ELSE r.year = Null
             ELSE /\ r.year = Null
                  /\ t.kind = "str" => r.erupt = NullCell

\* C1 witness: a text with two different four-digit windows was loaded and the
\* year is the leftmost one, next to a sentinel row stored as null
EruptionYearWitness ==
  /\ pc = "loaded"
  /\ \E i \in RowIds :
       raw.rows[i].erupt = StrCell(TwoYears) /\ df.rows[i].year = {1191}
  /\ \E i \in RowIds :
       /\ raw.rows[i].erupt = StrCell(Unknown)
       /\ df.rows[i].erupt = NullCell
       /\ df.rows[i].year = Null

\* C2 (as claimed): on the elevation page the reported count is the number of
\* rows of the filtered table and the reported average is the mean of its
\* non-null elevations, for a concrete region and for the no-selection sentinel.
ElevationCountMatchesFilteredTable ==
  (Shown("query2") /\ err = "none") =>
    /\ out.count = Len(filtered)
    /\ out.avg = mean(df.rows, filtered)

\* C3 (as claimed): load_data never raises on the content of the eruption
\* column; with the column present it returns a table.
LoadNeverRaisesOnEruptionContent ==
  ("last known eruption" \in {strip_lower(h) : h \in raw.header} /\ page = "load_data")
    => (pc = "loaded" /\ err = "none")

\* C4 (as claimed): a sheet that lacks a required column fails in load_data;
\* no page is reached with a table that lacks one, and no page raises KeyError.
MissingColumnFailsAtLoad ==
  /\ Loaded => Columns \subseteq df.columns
  /\ pc = "shown" => err # "KeyError"

\* C5: once loaded, no page visit and no rerun changes the normalized table.
TableNeverChanges == [][df # NoTable => df' = df]_vars

\* C5 witness: query4 has filtered rows away and the table is still the one
\* load_data returned
TableNeverChangesWitness ==
  /\ Shown("query4")
  /\ err = "none"
  /\ Len(filtered) < Len(df.rows)
  /\ sel.known
  /\ df = load_table(raw)

\* C6: a row with a null elevation, year or tectonic setting never makes a
\* filter raise (the only raise on these pages is the year slider refusing
\* min_year > 2025); it is excluded by the filters that read the null field
\* and kept by the others.
NullRowsExcludedNeverRaise ==
  /\ Shown("query2") =>
       /\ err = "none"
       /\ \A i \in RowIds :
            InFiltered(i) <=>
              /\ df.rows[i].elev # Null
              /\ \A e \in df.rows[i].elev : e >= sel.height
              /\ sel.region = NoRegion \/ df.rows[i].region = {sel.region}
  /\ Shown("query3") =>
       /\ err # "none" => out.min_year > MaxYear
       /\ err = "none" =>
            \A i \in RowIds :
              InFiltered(i) <=>
                /\ df.rows[i].year # Null
                /\ \A y \in df.rows[i].year : sel.years[1] =< y /\ y =< sel.years[2]
                /\ sel.setting = NoSetting \/ df.rows[i].setting = {sel.setting}
  /\ Shown("query4") =>
       /\ err = "none"
       /\ \A i \in RowIds :
            InFiltered(i) <=>
              /\ sel.known => df.rows[i].erupt.kind # "null"
              /\ sel.region = NoRegion \/ df.rows[i].region = {sel.region}
              /\ sel.types = {} \/ (df.rows[i].type # Null /\ df.rows[i].type \subseteq sel.types)

\* C6 witness: the elevation filter at threshold 0 dropped a row with a null
\* elevation and kept a row with a null tectonic setting
NullRowsWitness ==
  /\ Shown("query2")
  /\ sel.height = MinHeight
  /\ \E i \in RowIds : df.rows[i].elev = Null /\ ~InFiltered(i)
  /\ \E i \in RowIds : df.rows[i].setting = Null /\ InFiltered(i)

\* C7 (as claimed): get_named_volcanoes returns, in table order, the names of
\* the filtered rows that contain "Mount", and does not raise on a row whose
\* name is null.
NamedVolcanoesNeverRaise ==
  Shown("query1") =>
    /\ err = "none"
    /\ LET hit == SelectSeq(filtered,
                    LAMBDA i : \E n \in df.rows[i].name : Contains(n, Mount))
       IN  /\ Len(out.named) = Len(hit)
           /\ \A k \in 1..Len(hit) : {out.named[k]} = df.rows[hit[k]].name

RegionStep(idx) ==
  IF sel.region = NoRegion THEN idx ELSE filter_region(df.rows, idx, sel.region)

ElevationStep(idx) == filter_min_elevation(df.rows, idx, sel.height)

KnownStep(idx) == IF sel.known THEN filter_known(df.rows, idx) ELSE idx

TypesStep(idx) == IF sel.types = {} THEN idx ELSE filter_types(df.rows, idx, sel.types)

\* C8: the filters compose in any order: region then minimum elevation gives
\* the rows of minimum elevation then region, which are the rows query2 shows;
\* the known-eruption, region and type filters of query4 give in each of their
\* six orders the rows query4 shows.
FiltersCommute ==
  LET all == AllIdx(df.rows)
  IN  /\ (Shown("query2") /\ err = "none") =>
           /\ ElevationStep(RegionStep(all)) = RegionStep(ElevationStep(all))
           /\ filtered = ElevationStep(RegionStep(all))
      /\ (Shown("query4") /\ err = "none") =>
           /\ filtered = TypesStep(RegionStep(KnownStep(all)))
           /\ filtered = RegionStep(TypesStep(KnownStep(all)))
           /\ filtered = TypesStep(KnownStep(RegionStep(all)))
           /\ filtered = KnownStep(TypesStep(RegionStep(all)))
           /\ filtered = RegionStep(KnownStep(TypesStep(all)))
           /\ filtered = KnownStep(RegionStep(TypesStep(all)))

\* C8 witness: query4 ran with all three filters active, each of them alone
\* drops a row, and a row is left
FiltersCommuteWitness ==
  LET all == AllIdx(df.rows)
  IN  /\ Shown("query4")
      /\ err = "none"
      /\ sel.known /\ sel.region # NoRegion /\ sel.types # {}
      /\ KnownStep(all) # all /\ RegionStep(all) # all /\ TypesStep(all) # all
      /\ KnownStep(all) # RegionStep(all) /\ RegionStep(all) # TypesStep(all)
      /\ filtered # <<>>

FilteredTypes == [k \in 1..Len(filtered) |-> df.rows[filtered[k]].type]

FirstPos(v) == SetMin({k \in 1..Len(filtered) : FilteredTypes[k] = {v}})

\* what C9 states apart from the order of ties
TopTypesShape(top) ==
  /\ Len(top) =< TopN
  /\ Len(top) = Min(TopN, Cardinality(UNION Range(FilteredTypes)))
  /\ \A k \in 1..Len(top) :
       /\ top[k].count = Occurrences(FilteredTypes, top[k].key)
       /\ top[k].count >= 1
       /\ \A l \in 1..Len(top) : top[l].key = top[k].key => l = k
  /\ \A k \in 1..(Len(top) - 1) : top[k].count >= top[k + 1].count
  /\ \A v \in UNION Range(FilteredTypes) :
       (\A k \in 1..Len(top) : top[k].key # v) =>
          \A k \in 1..Len(top) : top[k].count >= Occurrences(FilteredTypes, v)
  /\ SumSeq([k \in 1..Len(top) |-> top[k].count]) =< Len(filtered)

\* C9 (as claimed): the top types of query4 are at most 10 (type, count)
\* pairs in descending order of count, types of equal count in the order in
\* which the filtered table first shows them, each count the number of
\* filtered rows of the type, and the counts sum to at most the row count.
TopTypesTiesInFirstSeenOrder ==
  (Shown("query4") /\ err = "none") =>
    /\ TopTypesShape(out.top_types)
    /\ \A k \in 1..Len(out.top_types), l \in 1..Len(out.top_types) :
         (k < l /\ out.top_types[k].count = out.top_types[l].count) =>
            FirstPos(out.top_types[k].key) < FirstPos(out.top_types[l].key)

\* C9 (amended): the top types of query4 are the 10 most frequent types of
\* the filtered table (all of them when there are fewer), as distinct (type,
\* count) pairs in descending order of count, each count the number of
\* filtered rows of the type, the counts summing to at most the row count;
\* the order among types of equal count is not fixed.
TopTypesSortedAndBounded ==
  (Shown("query4") /\ err = "none") => TopTypesShape(out.top_types)

\* C9 witness: more than 10 types were counted, 10 are shown, and two of the
\* shown types have the same count
TopTypesWitness ==
  /\ Shown("query4")
  /\ err = "none"
  /\ Len(out.type_counts) > TopN
  /\ Len(out.top_types) = TopN
  /\ out.top_types[1].count > out.top_types[2].count
  /\ out.top_types[2].count = out.top_types[3].count

\* C10 (as claimed): with the year slider at its default range (min_year,
\* 2025) and no tectonic setting selected, query3 shows every row whose year
\* is known, and min_year is at most 2025.
DefaultYearViewShowsAllKnown ==
  (Shown("query3") /\ sel.years = <<out.min_year, MaxYear>> /\ sel.setting = NoSetting) =>
    /\ out.min_year =< MaxYear
    /\ err = "none"
    /\ \A i \in RowIds : df.rows[i].year # Null => InFiltered(i)

====
